---------------------------- MODULE Spec2Model ----------------------------
(* The unit-commitment solver of src/classes.py (class UCproblem) as a     *)
(* state machine.                                                          *)
(*                                                                         *)
(* Numbers.  The code computes in floats.  The model computes exactly, in  *)
(* integers: every power (pmin, pmax, load, solution, current_load) is     *)
(* counted in hundredths of a MW, so that `pmax * wind / 100` is an exact  *)
(* integer division whenever pmax is a whole number of MW; efficiencies    *)
(* are counted in percent and drawn from divisors of 100, so that          *)
(* `price / efficiency` is exact as well.  Float rounding is not modelled. *)
(*                                                                         *)
(* Indices.  `powerplant` is the 0-based index of the code; the sequences  *)
(* of TLA+ are 1-based, and At(s, i) reads the code's s[i].                *)
(*                                                                         *)
(* None.  merit_order_val and solution start as None, modelled as <<>>:    *)
(* no run assigns either an empty list, because compute_merit_order raises *)
(* on an empty plant list before either is assigned.                       *)
EXTENDS Integers, Sequences, FiniteSets, TLC

VARIABLES
    payload,          \* Payload.powerplants: the plants as the caller gave them
    load,             \* self.load
    fuels,            \* self.fuels
    powerplants,      \* self.powerplants
    merit_order_val,  \* self.merit_order_val
    solution,         \* self.solution
    current_load,     \* self.current_load
    pc,               \* where the run stands: idle, build, decrease, return, crashed
    powerplant,       \* the argument of the innermost build_solution frame
    ret,              \* the value the innermost finished frame returned
    branch,           \* the branch the innermost build_solution frame took
    result,           \* what the last finished call gave its caller
    mo_calls,         \* direct calls of compute_merit_order so far
    uc_calls          \* calls of compute_UC so far

vars == <<payload, load, fuels, powerplants, merit_order_val, solution,
          current_load, pc, powerplant, ret, branch, result, mo_calls, uc_calls>>

-----------------------------------------------------------------------------
(* Bounds of the model.                                                    *)

MaxPlants == 3
MaxLoad == 5
MaxCalls == 2

(* The 100 of `pmax * wind / 100`; also the number of hundredths in 1 MW   *)
(* and the number of percent in an efficiency of 1.                        *)
Percent == 100

-----------------------------------------------------------------------------
(* Helpers.                                                                *)

At(s, i) == s[i + 1]

RECURSIVE SumFrom(_, _)
SumFrom(s, i) == IF i > Len(s) THEN 0 ELSE s[i] + SumFrom(s, i + 1)

Sum(s) == SumFrom(s, 1)

(* InsertAt with the element put behind the place found, not at it.       *)
InsertAt_After(s, j, x) ==
    IF j > Len(s) THEN Append(s, x)
    ELSE SubSeq(s, 1, j) \o <<x>> \o SubSeq(s, j + 1, Len(s))

InsertAt(s, j, x) == SubSeq(s, 1, j - 1) \o <<x>> \o SubSeq(s, j, Len(s))

-----------------------------------------------------------------------------
(* The data of a request.                                                  *)

(* What a plant can be, its name apart: <<type, efficiency in percent,     *)
(* pmin, pmax>>, every one with 0 <= pmin <= pmax.  Thermal plants that    *)
(* can be throttled (pmin < pmax), that cannot (pmin = pmax) and that can  *)
(* idle at 0, in two cost classes each; two sizes of wind turbine.         *)
PlantKinds ==
    { <<"gasfired", 100, 0, 2 * Percent>>,
      <<"gasfired", 100, Percent, 2 * Percent>>,
      <<"gasfired", 100, 2 * Percent, 2 * Percent>>,
      <<"gasfired", 50, 0, 2 * Percent>>,
      <<"gasfired", 50, Percent, 2 * Percent>>,
      <<"gasfired", 50, 3 * Percent, 3 * Percent>>,
      <<"turbojet", 50, 0, 2 * Percent>>,
      <<"turbojet", 50, 3 * Percent, 3 * Percent>>,
      <<"windturbine", 100, 0, Percent>>,
      <<"windturbine", 100, 0, 2 * Percent>> }

(* A plant of the request: a kind with 0 <= pmin <= pmax, named after its  *)
(* place in the request.                                                   *)
Powerplant(name, k) ==
    [name |-> name, type |-> k[1], efficiency |-> k[2], pmin |-> k[3], pmax |-> k[4]]

Payloads ==
    UNION {{[i \in 1..n |-> Powerplant(i, ks[i])] : ks \in [1..n -> PlantKinds]}
           : n \in 0..MaxPlants}

(* Fuel prices; the co2 price is never read by the code and is left out.   *)
FuelSets ==
    { [gas |-> 2, kerosine |-> 1, wind |-> 50],
      [gas |-> 2, kerosine |-> 1, wind |-> 100],
      [gas |-> -1, kerosine |-> 1, wind |-> 100] }

Loads == {l * Percent : l \in -1..MaxLoad}

-----------------------------------------------------------------------------
(* The cost model.                                                         *)

compute_cost(p, f) ==
    IF p.type = "windturbine" THEN 0
    ELSE IF p.type = "gasfired" THEN (f.gas * Percent) \div p.efficiency
    ELSE (f.kerosine * Percent) \div p.efficiency

get_p_min(p) ==
    IF p.type = "windturbine" THEN (p.pmax * fuels.wind) \div Percent ELSE p.pmin

get_p_max(p) ==
    IF p.type = "windturbine" THEN (p.pmax * fuels.wind) \div Percent ELSE p.pmax

-----------------------------------------------------------------------------
(* compute_merit_order.                                                    *)

(* InsertionPoint with `cost < vals[j]` for the `cost <= vals[j]` of line  *)
(* 88: a plant goes behind the plants of its cost.                         *)
RECURSIVE InsertionPoint_Strict(_, _, _)
InsertionPoint_Strict(vals, cost, j) ==
    IF j > Len(vals) THEN j
    ELSE IF cost < vals[j] THEN j
    ELSE InsertionPoint_Strict(vals, cost, j + 1)

(* The while loop of lines 85-96: the first j with cost <= vals[j], or one *)
(* past the end when there is none.                                        *)
RECURSIVE InsertionPoint(_, _, _)
InsertionPoint(vals, cost, j) ==
    IF j > Len(vals) THEN j
    ELSE IF cost <= vals[j] THEN j
    ELSE InsertionPoint(vals, cost, j + 1)

(* The for loop of lines 79-96, from input index i on.                     *)
RECURSIVE MeritLoop(_, _, _, _, _)
MeritLoop(plants, f, i, ordered, vals) ==
    IF i > Len(plants) THEN [powerplants |-> ordered, merit_order_val |-> vals]
    ELSE LET cost == compute_cost(plants[i], f)
             j == InsertionPoint(vals, cost, 1)
         IN MeritLoop(plants, f, i + 1, InsertAt(ordered, j, plants[i]),
                      InsertAt(vals, j, cost))

(* The lists compute_merit_order leaves, for a non-empty plant list.       *)
MeritOrder(plants, f) ==
    MeritLoop(plants, f, 2, <<plants[1]>>, <<compute_cost(plants[1], f)>>)

-----------------------------------------------------------------------------
(* decrease_total_load.                                                    *)

(* DecreaseLoop with line 169 taking off the whole possible_decrease, not *)
(* only the overshoot.                                                     *)
RECURSIVE DecreaseLoop_ShedAll(_, _, _)
DecreaseLoop_ShedAll(k, new_solution, new_load) ==
    IF k < 0 THEN [ok |-> FALSE, solution |-> solution, current_load |-> current_load]
    ELSE LET p_min == get_p_min(At(powerplants, k)) IN
         IF p_min < At(new_solution, k)
         THEN LET possible_decrease == At(new_solution, k) - p_min IN
              IF new_load - possible_decrease <= load
              THEN LET s == [new_solution EXCEPT ![k + 1] = @ - possible_decrease]
                   IN [ok |-> TRUE, solution |-> s, current_load |-> Sum(s)]
              ELSE DecreaseLoop_ShedAll(k - 1,
                                [new_solution EXCEPT ![k + 1] = @ - possible_decrease],
                                new_load - possible_decrease)
         ELSE DecreaseLoop_ShedAll(k - 1, new_solution, new_load)

(* The while loop of lines 161-178 from index k down, on the copies.       *)
RECURSIVE DecreaseLoop(_, _, _)
DecreaseLoop(k, new_solution, new_load) ==
    IF k < 0 THEN [ok |-> FALSE, solution |-> solution, current_load |-> current_load]
    ELSE LET p_min == get_p_min(At(powerplants, k)) IN
         IF p_min < At(new_solution, k)
         THEN LET possible_decrease == At(new_solution, k) - p_min IN
              IF new_load - possible_decrease <= load
              THEN LET s == [new_solution EXCEPT ![k + 1] = @ - (new_load - load)]
                   IN [ok |-> TRUE, solution |-> s, current_load |-> Sum(s)]
              ELSE DecreaseLoop(k - 1,
                                [new_solution EXCEPT ![k + 1] = @ - possible_decrease],
                                new_load - possible_decrease)
         ELSE DecreaseLoop(k - 1, new_solution, new_load)

(* decrease_total_load that starts one plant too low.                      *)
decrease_total_load_SkipFirst(k) == DecreaseLoop(k - 1, solution, current_load)

(* decrease_total_load(k): whether it succeeded, and the solution and      *)
(* current_load it leaves.                                                 *)
decrease_total_load(k) == DecreaseLoop(k, solution, current_load)

-----------------------------------------------------------------------------
(* The conditions of build_solution's branches, for the plant at index i.  *)

(* Undershoot with `<=` for the `<` of line 196.                           *)
Undershoot_OrEqual(i) == current_load + get_p_max(At(powerplants, i)) <= load

Undershoot(i) == current_load + get_p_max(At(powerplants, i)) < load

(* Overshoot that lets an overshoot of up to 1 MW pass as a fit.           *)
Overshoot_Late(i) == current_load + get_p_min(At(powerplants, i)) > load + Percent

Overshoot(i) == current_load + get_p_min(At(powerplants, i)) > load

-----------------------------------------------------------------------------
(* The state after UCproblem(payload).                                     *)

Init ==
    /\ payload \in Payloads
    /\ load \in Loads
    /\ fuels \in FuelSets
    /\ powerplants = payload
    /\ merit_order_val = <<>>
    /\ solution = <<>>
    /\ current_load = 0
    /\ pc = "idle"
    /\ powerplant = 0
    /\ ret = FALSE
    /\ branch = "none"
    /\ result = "none"
    /\ mo_calls = 0
    /\ uc_calls = 0

(* A direct call of compute_merit_order, as the tests make it.             *)
ComputeMeritOrder ==
    /\ pc = "idle"
    /\ mo_calls + uc_calls < MaxCalls
    /\ mo_calls' = mo_calls + 1
    /\ IF powerplants = <<>>
       THEN /\ pc' = "crashed"
            /\ result' = "IndexError"
            /\ UNCHANGED <<powerplants, merit_order_val>>
       ELSE /\ powerplants' = MeritOrder(powerplants, fuels).powerplants
            /\ merit_order_val' = MeritOrder(powerplants, fuels).merit_order_val
            /\ result' = "None"
            /\ pc' = "idle"
    /\ UNCHANGED <<payload, load, fuels, solution, current_load, powerplant,
                   ret, branch, uc_calls>>

(* compute_UC up to its call of build_solution (lines 106-110).            *)
ComputeUC ==
    /\ pc = "idle"
    /\ mo_calls + uc_calls < MaxCalls
    /\ uc_calls' = uc_calls + 1
    /\ IF powerplants = <<>>
       THEN /\ pc' = "crashed"
            /\ result' = "IndexError"
            /\ UNCHANGED <<powerplants, merit_order_val, solution>>
       ELSE /\ powerplants' = MeritOrder(powerplants, fuels).powerplants
            /\ merit_order_val' = MeritOrder(powerplants, fuels).merit_order_val
            /\ solution' = [i \in 1..Len(powerplants) |-> 0]
            /\ result' = "running"
            /\ pc' = "build"
    /\ powerplant' = 0
    /\ branch' = "none"
    /\ UNCHANGED <<payload, load, fuels, current_load, ret, mo_calls>>

(* build_solution(powerplant) with powerplant past the last plant: line    *)
(* 196 reads self.powerplants[powerplant] and raises IndexError, which     *)
(* nothing catches.                                                        *)
BuildPastEnd ==
    /\ pc = "build"
    /\ powerplant >= Len(powerplants)
    /\ pc' = "crashed"
    /\ result' = "IndexError"
    /\ UNCHANGED <<payload, load, fuels, powerplants, merit_order_val, solution,
                   current_load, powerplant, ret, branch, mo_calls, uc_calls>>

(* Branch (1), lines 196-202: commit Pmax and call build_solution on the   *)
(* next index.                                                             *)
BuildUndershoot ==
    /\ pc = "build"
    /\ powerplant < Len(powerplants)
    /\ Undershoot(powerplant)
    /\ solution' = [solution EXCEPT ![powerplant + 1] = get_p_max(At(powerplants, powerplant))]
    /\ current_load' = current_load + get_p_max(At(powerplants, powerplant))
    /\ powerplant' = powerplant + 1
    /\ branch' = "undershoot"
    /\ UNCHANGED <<payload, load, fuels, powerplants, merit_order_val, pc, ret,
                   result, mo_calls, uc_calls>>

(* Branch (2), lines 212-215: commit Pmin and call decrease_total_load.    *)
BuildOvershoot ==
    /\ pc = "build"
    /\ powerplant < Len(powerplants)
    /\ ~Undershoot(powerplant)
    /\ Overshoot(powerplant)
    /\ solution' = [solution EXCEPT ![powerplant + 1] = get_p_min(At(powerplants, powerplant))]
    /\ current_load' = current_load + get_p_min(At(powerplants, powerplant))
    /\ pc' = "decrease"
    /\ branch' = "overshoot"
    /\ UNCHANGED <<payload, load, fuels, powerplants, merit_order_val, powerplant,
                   ret, result, mo_calls, uc_calls>>

(* decrease_total_load(powerplant - 1) and what branch (2) does with its   *)
(* answer, lines 215-220: return True, or take the commitment back and     *)
(* return False.                                                           *)
Decrease ==
    /\ pc = "decrease"
    /\ LET d == decrease_total_load(powerplant - 1) IN
       IF d.ok
       THEN /\ solution' = d.solution
            /\ current_load' = d.current_load
            /\ ret' = TRUE
       ELSE /\ solution' = [solution EXCEPT ![powerplant + 1] = 0]
            /\ current_load' = current_load - get_p_min(At(powerplants, powerplant))
            /\ ret' = FALSE
    /\ pc' = "return"
    /\ UNCHANGED <<payload, load, fuels, powerplants, merit_order_val, powerplant,
                   branch, result, mo_calls, uc_calls>>

(* Branch (3), lines 222-225: commit what is missing and return True.      *)
BuildExactFit ==
    /\ pc = "build"
    /\ powerplant < Len(powerplants)
    /\ ~Undershoot(powerplant)
    /\ ~Overshoot(powerplant)
    /\ solution' = [solution EXCEPT ![powerplant + 1] = load - current_load]
    /\ current_load' = current_load + (load - current_load)
    /\ ret' = TRUE
    /\ pc' = "return"
    /\ branch' = "exact"
    /\ UNCHANGED <<payload, load, fuels, powerplants, merit_order_val, powerplant,
                   result, mo_calls, uc_calls>>

(* The frame at index powerplant > 0 has returned ret to the frame below   *)
(* it, which stands in branch (1), lines 202-207: True is passed on, on    *)
(* False the commitment is taken back and False is passed on.              *)
ReturnToCaller ==
    /\ pc = "return"
    /\ powerplant > 0
    /\ powerplant' = powerplant - 1
    /\ IF ret
       THEN UNCHANGED <<solution, current_load>>
       ELSE /\ solution' = [solution EXCEPT ![powerplant] = 0]
            /\ current_load' = current_load - get_p_max(At(powerplants, powerplant - 1))
    /\ UNCHANGED <<payload, load, fuels, powerplants, merit_order_val, pc, ret,
                   branch, result, mo_calls, uc_calls>>

(* build_solution(0) has returned: compute_UC returns its value (line 110).*)
ReturnUC ==
    /\ pc = "return"
    /\ powerplant = 0
    /\ result' = IF ret THEN "True" ELSE "False"
    /\ pc' = "idle"
    /\ UNCHANGED <<payload, load, fuels, powerplants, merit_order_val, solution,
                   current_load, powerplant, ret, branch, mo_calls, uc_calls>>

Next ==
    \/ ComputeMeritOrder
    \/ ComputeUC
    \/ BuildPastEnd
    \/ BuildUndershoot
    \/ BuildOvershoot
    \/ Decrease
    \/ BuildExactFit
    \/ ReturnToCaller
    \/ ReturnUC

Spec == Init /\ [][Next]_vars

-----------------------------------------------------------------------------
(* What the claims speak of.                                               *)

N == Len(powerplants)

PMin(i) == get_p_min(At(powerplants, i))

PMax(i) == get_p_max(At(powerplants, i))

(* The sum of get_p_max over the plants at indices 0..i-1.                 *)
PrefixMax(i) == Sum([j \in 1..i |-> get_p_max(powerplants[j])])

(* get_solution, lines 234-238.                                            *)
get_solution == [i \in 1..N |-> [name |-> powerplants[i].name, p |-> solution[i]]]

(* The request is one the specification calls invalid.                     *)
InvalidRequest ==
    \/ payload = <<>>
    \/ load < 0
    \/ fuels.gas < 0
    \/ fuels.kerosine < 0

(* The first compute_UC call on the instance has returned v.               *)
FirstSolveReturned(v) == uc_calls = 1 /\ pc = "idle" /\ result = v

(* C1: when the first compute_UC call on an instance returns True, the     *)
(* entries of solution add up to the requested load.                       *)
C1_SumEqualsLoad == FirstSolveReturned("True") => Sum(solution) = load

(* A successful compute_UC that ended in decrease_total_load, on three     *)
(* plants.                                                                 *)
C1_Witness ==
    /\ FirstSolveReturned("True")
    /\ branch = "overshoot"
    /\ N = 3
    /\ load > 0

(* C2: when the first compute_UC call on an instance returns True, every   *)
(* plant's allocation is 0 or lies within [get_p_min, get_p_max].          *)
C2_WithinBounds ==
    FirstSolveReturned("True") =>
        \A i \in 0..(N - 1) :
            \/ At(solution, i) = 0
            \/ PMin(i) <= At(solution, i) /\ At(solution, i) <= PMax(i)

(* A success in which decrease_total_load left a plant strictly between    *)
(* its minimum and its maximum.                                            *)
C2_Witness ==
    /\ FirstSolveReturned("True")
    /\ branch = "overshoot"
    /\ \E i \in 0..(N - 1) : PMin(i) < At(solution, i) /\ At(solution, i) < PMax(i)

(* C3: when the load of a valid request exceeds the sum of get_p_max over  *)
(* all plants, the first compute_UC call never evaluates build_solution on *)
(* an index past the last plant, raises nothing, and returns False.        *)
C3_ExcessLoadReturnsFalse ==
    (~InvalidRequest /\ uc_calls = 1 /\ load > PrefixMax(N)) =>
        /\ pc = "build" => powerplant < N
        /\ pc # "crashed"
        /\ pc = "idle" => result \in {"False", "None"}

(* Some plants switched on, each within its range, can deliver the load.   *)
Feasible ==
    \E S \in SUBSET (0..(N - 1)) :
        /\ Sum([j \in 1..N |-> IF (j - 1) \in S THEN PMin(j - 1) ELSE 0]) <= load
        /\ load <= Sum([j \in 1..N |-> IF (j - 1) \in S THEN PMax(j - 1) ELSE 0])

(* C4: on a valid request the first compute_UC call returns False only     *)
(* when no feasible allocation exists.                                     *)
C4_FalseOnlyIfInfeasible ==
    (~InvalidRequest /\ FirstSolveReturned("False")) => ~Feasible

(* The place of the plant called name in the list plants.                  *)
PlaceIn(plants, name) == CHOOSE i \in 1..Len(plants) : plants[i].name = name

(* ordered and vals are what the claim says compute_merit_order makes of   *)
(* the list input.                                                         *)
IsMeritOrderOf(input, ordered, vals) ==
    /\ Len(ordered) = Len(input)
    /\ Len(vals) = Len(input)
    /\ {ordered[i] : i \in 1..Len(ordered)} = {input[i] : i \in 1..Len(input)}
    /\ \A i \in 1..Len(vals) : vals[i] = compute_cost(ordered[i], fuels)
    /\ \A i, j \in 1..Len(vals) : i < j => vals[i] <= vals[j]
    /\ \A i, j \in 1..Len(vals) :
           (i < j /\ vals[i] = vals[j]) =>
               PlaceIn(input, ordered[i].name) > PlaceIn(input, ordered[j].name)

(* A step that runs compute_merit_order to its end.                        *)
MeritOrderRuns ==
    /\ pc = "idle"
    /\ powerplants # <<>>
    /\ mo_calls' + uc_calls' > mo_calls + uc_calls

(* C5: every run of compute_merit_order on a non-empty plant list leaves   *)
(* powerplants a permutation of the list it found, merit_order_val their   *)
(* costs in non-decreasing order, and plants of equal cost in the reverse  *)
(* of the order it found them in.                                          *)
C5_MeritOrder ==
    [][MeritOrderRuns => IsMeritOrderOf(powerplants, powerplants', merit_order_val')]_vars

(* Three plants ordered once, two of them of equal cost, the later of the  *)
(* two now ahead of the earlier.                                           *)
C5_Witness ==
    /\ mo_calls + uc_calls = 1
    /\ N = 3
    /\ \E i, j \in 1..N :
           /\ i < j
           /\ merit_order_val[i] = merit_order_val[j]
           /\ merit_order_val[1] < merit_order_val[3]
           /\ powerplants[i].name > powerplants[j].name

(* A step that runs compute_merit_order on an instance it has run on       *)
(* before.                                                                 *)
MeritOrderRunsAgain == MeritOrderRuns /\ mo_calls + uc_calls >= 1

(* C6 as claimed: a further run of compute_merit_order leaves powerplants  *)
(* and merit_order_val as they were.                                       *)
C6_Idempotent ==
    [][MeritOrderRunsAgain =>
         powerplants' = powerplants /\ merit_order_val' = merit_order_val]_vars

(* The place that mirrors place i within its run of equal costs.           *)
Mirror(vals, i) ==
    LET run == {j \in 1..Len(vals) : vals[j] = vals[i]}
        lo == CHOOSE j \in run : \A m \in run : j <= m
        hi == CHOOSE j \in run : \A m \in run : j >= m
    IN lo + hi - i

(* C6 as amended: a further run of compute_merit_order leaves              *)
(* merit_order_val as it was and reverses the plants within every run of   *)
(* equal cost, so powerplants stays as it was when all costs differ.       *)
C6_IdempotentUpToTies ==
    [][MeritOrderRunsAgain =>
         /\ merit_order_val' = merit_order_val
         /\ Len(powerplants') = Len(powerplants)
         /\ \A i \in 1..Len(powerplants) :
                powerplants'[i] = powerplants[Mirror(merit_order_val, i)]
         /\ (\A i, j \in 1..Len(merit_order_val) :
                 i # j => merit_order_val[i] # merit_order_val[j])
            => powerplants' = powerplants]_vars

(* compute_merit_order has run twice on plants two of which cost the same, *)
(* and the list is not the one its first run left.                         *)
C6_Witness ==
    /\ mo_calls = 2
    /\ N = 3
    /\ merit_order_val = MeritOrder(payload, fuels).merit_order_val
    /\ powerplants # MeritOrder(payload, fuels).powerplants
    /\ powerplants = payload

(* C7: on an invalid request no backtracking step runs and every call      *)
(* ends with an InvalidRequest outcome.                                    *)
C7_InvalidRequestRejected ==
    InvalidRequest =>
        /\ pc \in {"idle", "rejected"}
        /\ mo_calls + uc_calls >= 1 => result = "InvalidRequest"

(* What the claim says of a successful decrease_total_load(k) that found   *)
(* the allocation old and left the allocation new.                         *)
ShedsGreedily(k, old, new) ==
    /\ Sum(new) = load
    /\ \A i \in (k + 1)..(N - 1) : At(new, i) = At(old, i)
    /\ \A i \in 0..k :
           IF At(old, i) <= PMin(i)
           THEN At(new, i) = At(old, i)
           ELSE PMin(i) <= At(new, i) /\ At(new, i) <= At(old, i)
    /\ \A j \in 0..(k - 1) :
           At(new, j) < At(old, j) =>
               \A m \in (j + 1)..k : At(new, m) = PMin(m) \/ At(old, m) <= PMin(m)

(* C8: a decrease_total_load(k) invoked with current_load > load that      *)
(* returns True sheds exactly the overshoot, greedily from index k down.   *)
C8_DecreaseShedsGreedily ==
    [][(pc = "decrease" /\ current_load > load /\ pc' = "return" /\ ret')
         => ShedsGreedily(powerplant - 1, solution, solution')]_vars

(* decrease_total_load(1) has succeeded by lowering the plant at index 1   *)
(* to its minimum and the plant at index 0 by the rest.                    *)
C8_Witness ==
    /\ pc = "return"
    /\ ret
    /\ branch = "overshoot"
    /\ powerplant = 2
    /\ At(solution, 1) = PMin(1) /\ PMin(1) < PMax(1)
    /\ PMin(0) < At(solution, 0) /\ At(solution, 0) < PMax(0)

(* k is the first index at which the maxima of plants 0..k reach the load. *)
FirstReaching(k) ==
    /\ PrefixMax(k + 1) >= load
    /\ \A i \in 0..(k - 1) : PrefixMax(i + 1) < load

(* C9: if k is the first index at which the maxima of plants 0..k reach    *)
(* the load, and the maxima before k plus the minimum of k do not exceed   *)
(* it, the first compute_UC call returns True with the maximum for every   *)
(* plant before k, the rest of the load for k and 0 after k, and           *)
(* get_solution lists these per plant in merit order.                      *)
C9_GreedyDispatch ==
    \A k \in 0..(N - 1) :
        (/\ uc_calls = 1
         /\ FirstReaching(k)
         /\ PrefixMax(k) + PMin(k) <= load)
        => /\ pc # "crashed"
           /\ (pc = "idle" /\ result # "None") =>
                  /\ result = "True"
                  /\ get_solution =
                         [i \in 1..N |->
                             [name |-> powerplants[i].name,
                              p |-> IF i - 1 < k THEN PMax(i - 1)
                                    ELSE IF i - 1 = k THEN load - PrefixMax(k)
                                    ELSE 0]]

(* Three plants: the first at its maximum, the second strictly inside its  *)
(* range, the third off.                                                   *)
C9_Witness ==
    /\ FirstSolveReturned("True")
    /\ N = 3
    /\ FirstReaching(1)
    /\ At(solution, 0) = PMax(0) /\ PMax(0) > 0
    /\ PMin(1) < At(solution, 1) /\ At(solution, 1) < PMax(1)
    /\ At(solution, 2) = 0 /\ PMin(2) > 0

(* C10: on a valid request, whenever build_solution starts and whenever    *)
(* compute_UC has returned, after any number of compute_UC calls on the    *)
(* instance, current_load is the sum of the entries of solution.           *)
C10_CurrentLoadIsSum ==
    (/\ ~InvalidRequest
     /\ \/ pc = "build"
        \/ uc_calls >= 1 /\ pc = "idle" /\ result \in {"True", "False"})
    => current_load = Sum(solution)

=============================================================================
